---------------------------- MODULE Spec2Model ----------------------------
(***************************************************************************)
(* A model of the AI Laundry Sorter front end (src/app.py): one run of the *)
(* Streamlit script over a batch of uploaded images, followed by the       *)
(* sidebar's health checks.                                                *)
(*                                                                         *)
(* Conventions.                                                            *)
(*  - A Python str that the code passes through .lower() or .title() is a  *)
(*    sequence of one-character strings, so that the case conversions are  *)
(*    computed letter by letter.  Other text is a TLA+ string; characters  *)
(*    outside ASCII (emoji, the em dash, the degree sign) are written in   *)
(*    ASCII or left out.                                                   *)
(*  - A JSON object is a function from its keys to its values; a key that  *)
(*    is absent from the object is absent from the function's domain.      *)
(*  - A confidence is an integer number of thousandths (0.873 is 873 and   *)
(*    87.3 is 87300).                                                      *)
(*  - Everything st.* renders in the row of the image being processed is   *)
(*    an element of the sequence row, in rendering order.  Rows of the     *)
(*    images processed before it are kept in page by their outcome only:   *)
(*    no code reads a finished row.                                        *)
(***************************************************************************)
EXTENDS Naturals, Integers, Sequences, FiniteSets, TLC

\* Largest number of files in one upload.
MaxImages == 2

-----------------------------------------------------------------------------
(* Text helpers: str.lower(), str.title()                                  *)

UpperLetters ==
  <<"A","B","C","D","E","F","G","H","I","J","K","L","M",
    "N","O","P","Q","R","S","T","U","V","W","X","Y","Z">>

LowerLetters ==
  <<"a","b","c","d","e","f","g","h","i","j","k","l","m",
    "n","o","p","q","r","s","t","u","v","w","x","y","z">>

IsUpper(c) == \E k \in DOMAIN UpperLetters : UpperLetters[k] = c
IsLower(c) == \E k \in DOMAIN LowerLetters : LowerLetters[k] = c
IsLetter(c) == IsUpper(c) \/ IsLower(c)

LowerChar(c) ==
  IF IsUpper(c)
    THEN LowerLetters[CHOOSE k \in DOMAIN UpperLetters : UpperLetters[k] = c]
    ELSE c

UpperChar(c) ==
  IF IsLower(c)
    THEN UpperLetters[CHOOSE k \in DOMAIN LowerLetters : LowerLetters[k] = c]
    ELSE c

\* str.lower()
Lower(s) == [k \in DOMAIN s |-> LowerChar(s[k])]

\* str.title(): the first letter of every run of letters in upper case, the
\* other letters in lower case.
Title(s) ==
  [k \in DOMAIN s |->
     IF k = 1 \/ ~IsLetter(s[k - 1]) THEN UpperChar(s[k]) ELSE LowerChar(s[k])]

-----------------------------------------------------------------------------
(* Static tables                                                           *)

cotton    == <<"c","o","t","t","o","n">>
denim     == <<"d","e","n","i","m">>
leather   == <<"l","e","a","t","h","e","r">>
linen     == <<"l","i","n","e","n">>
polyester == <<"p","o","l","y","e","s","t","e","r">>
silk      == <<"s","i","l","k">>

care_guide ==
  [f \in {cotton, denim, leather, linen, polyester, silk} |->
     CASE f = cotton ->
            [title |-> "Cotton - Safe & Easy",
             instructions |-> <<"Machine wash cold or warm",
                                "Normal or gentle cycle",
                                "Tumble dry low or air dry",
                                "Can handle regular detergent">>,
             emoji |-> "t-shirt"]
       [] f = denim ->
            [title |-> "Denim - Preserve the Color",
             instructions |-> <<"Machine wash cold, inside out",
                                "Gentle cycle only",
                                "Air dry preferred (prevents fading)",
                                "Wash infrequently">>,
             emoji |-> "jeans"]
       [] f = leather ->
            [title |-> "Leather - DO NOT WASH!",
             instructions |-> <<"Never machine wash",
                                "Wipe with damp cloth only",
                                "Professional leather cleaning only",
                                "Condition regularly">>,
             emoji |-> "coat"]
       [] f = linen ->
            [title |-> "Linen - Handle with Care",
             instructions |-> <<"Machine or hand wash cold",
                                "Gentle cycle",
                                "Air dry flat",
                                "Iron while still damp">>,
             emoji |-> "necktie"]
       [] f = polyester ->
            [title |-> "Polyester - Very Durable",
             instructions |-> <<"Machine wash warm",
                                "Permanent press cycle",
                                "Tumble dry low",
                                "Resists wrinkles & shrinking">>,
             emoji |-> "running shirt"]
       [] f = silk ->
            [title |-> "Silk - Delicate Luxury",
             instructions |-> <<"Hand wash cold or dry clean",
                                "Use silk/gentle detergent",
                                "Line dry in shade",
                                "Never wring or twist">>,
             emoji |-> "sparkles"]]

BRIGHT_WASHING ==
  "\n**Bright Clothes Care:**\n- Wash with other bright/pastel colors\n- Avoid mixing with dark fabrics  \n- Use cold or warm water (30-40C)\n- Turn inside out to preserve colors\n"

DARK_WASHING ==
  "\n**Dark Clothes Care:**\n- Wash separately or with other dark clothes\n- Use cold water to prevent fading\n- Turn inside out before washing\n- Avoid over-drying\n"

\* dict.get(key, default)
DictGet(d, key, default) == IF key \in DOMAIN d THEN d[key] ELSE default


-----------------------------------------------------------------------------
(* Rendered elements                                                       *)

\* One element of the page: what one st.* call renders.  Every element has
\* the same fields; an element fills the ones its kind uses.
\*   text  the fixed text or label      detail  a variable text shown
\*   name  a str shown after .title()   num     a number shown
\*   data  a JSON object shown
El(kind) ==
  [kind |-> kind, text |-> "", detail |-> "", name |-> <<>>, num |-> 0,
   data |-> [k \in {} |-> 0]]

Text(kind, text) == [El(kind) EXCEPT !.text = text]

\* st.image(image, ...)
ImageEl == El("image")

\* st.write(label, status_code) and st.write(label, data): debug output
WriteNum(label, n) == [El("write") EXCEPT !.text = label, !.num = n]
WriteData(label, d) == [El("write") EXCEPT !.text = label, !.data = d]
WriteText(label, t) == [El("write") EXCEPT !.text = label, !.detail = t]

\* st.error(f"... {status_code}"): the service named and the numeric status
StatusError(label, code) == [El("status_error") EXCEPT !.text = label, !.num = code]

\* st.error(f"Error processing image: {str(e)}") and the traceback under it
ExceptionError(msg) == [El("exception_error") EXCEPT !.text = msg]
Traceback(msg) == [El("traceback") EXCEPT !.text = msg]

NotClothingWarning ==
  Text("warning", "**Not Clothing** - This item doesn't appear to be clothing")

FabricUndetermined ==
  Text("fabric_error", "Could not determine fabric type from API response")

\* f"{x:.1%}": x as a percentage with one decimal; num is in tenths of a
\* percent, which for x in thousandths is x itself.
Percent1(kind, x) == [El(kind) EXCEPT !.num = x]

\* f"{x:.1f}%": x with one decimal, unscaled; num is in tenths.
Fixed1(x) == (x + 50) \div 100

-----------------------------------------------------------------------------
(* What the services can answer                                            *)

Merge(f, g) ==
  [k \in DOMAIN f \cup DOMAIN g |-> IF k \in DOMAIN f THEN f[k] ELSE g[k]]

Restrict(f, K) == [k \in K |-> f[k]]

Empty == [k \in {} |-> 0]

\* Clothing service bodies: the documented body, the documented body less
\* any of its keys, with either verdict and either kind of cloth_type.
ClothBodies ==
  { Restrict(full, K) :
      full \in [is_clothing : BOOLEAN,
                cloth_type : {"Shirt", "Not Clothing"},
                confidence : {950},
                all_predictions : {[Shirt |-> 950]}],
      K \in { {"is_clothing", "cloth_type", "confidence", "all_predictions"},
              {"cloth_type", "confidence", "all_predictions"},
              {"is_clothing", "confidence", "all_predictions"},
              {"is_clothing", "cloth_type", "all_predictions"},
              {"is_clothing", "cloth_type", "confidence"},
              {"is_clothing", "cloth_type"} } }

\* Fabric names a fabric service may report: supported ones in several
\* casings, one outside the care guide, and the empty string.
LEATHER_UPPER == <<"L","E","A","T","H","E","R">>
Leather_Mixed == <<"L","e","a","T","h","e","r">>
Denim_Title   == <<"D","e","n","i","m">>
wool          == <<"w","o","o","l">>

FabricNames == {leather, LEATHER_UPPER, Leather_Mixed, denim, Denim_Title,
                silk, wool, <<>>}

FabricAliases == {"predicted_class", "fabric_type", "class", "prediction"}

\* The part of a fabric body that names the fabric: no key, one key with any
\* of the names, several keys with different names, or a key that is no
\* alias.
FabricNameParts ==
  {Empty}
  \cup { [k \in {a} |-> n] : a \in FabricAliases, n \in FabricNames }
  \cup { [predicted_class |-> denim, fabric_type |-> leather],
         [fabric_type |-> leather, class |-> wool],
         [predicted_class |-> wool, class |-> leather],
         [predicted_class |-> silk, fabric_type |-> denim, class |-> leather],
         [class |-> denim, prediction |-> leather],
         [predicted_class |-> <<>>, fabric_type |-> leather],
         [label |-> leather] }

\* The confidence of a fabric body: absent, zero, on the 0-1 scale or on
\* the 0-100 scale.
FabricConfidenceParts ==
  {Empty, [confidence |-> 0], [confidence |-> 873], [confidence |-> 87300]}

FabricDetailParts ==
  {Empty, [all_predictions |-> [denim |-> 87300]],
   [probabilities |-> [denim |-> 87300]]}

\* Every naming with one confidence and the per-class detail, and for a
\* leather, a denim and an unsupported naming every confidence with every
\* detail.
FabricBodies ==
  { Merge(n, [confidence |-> 87300, all_predictions |-> [denim |-> 87300]]) :
      n \in FabricNameParts }
  \cup
  { Merge(n, Merge(c, d)) :
      n \in {[fabric_type |-> LEATHER_UPPER], [predicted_class |-> denim],
             [class |-> wool]},
      c \in FabricConfidenceParts, d \in FabricDetailParts }

bright       == <<"b","r","i","g","h","t">>
Bright_Title == <<"B","r","i","g","h","t">>
dark         == <<"d","a","r","k">>
DARK_UPPER   == <<"D","A","R","K">>
pastel       == <<"p","a","s","t","e","l">>

ColorNames == {bright, Bright_Title, dark, DARK_UPPER, pastel}

ColorMetrics == [brightness_L |-> 712, saturation |-> 305, colorfulness |-> 441]

\* Every color with a confidence and the metrics, the body without a color,
\* and a bright and a dark body less the confidence, the metrics or both.
ColorBodies ==
  { Merge(n, Merge([confidence |-> 910], ColorMetrics)) :
      n \in {Empty} \cup { [color |-> x] : x \in ColorNames } }
  \cup
  { Merge([color |-> x], m) :
      x \in {bright, dark},
      m \in {Empty, [confidence |-> 910], ColorMetrics, [saturation |-> 305]} }

\* An HTTP response: the status, the body as text (shown for a failing
\* service) and the body as JSON (read after a 200).
OkResponse(body) == [status_code |-> 200, text |-> "", json |-> body]
FailedResponses ==
  { [status_code |-> s, text |-> "Service Unavailable", json |-> Empty] :
      s \in {500, 503} }

ClothResponses  == { OkResponse(b) : b \in ClothBodies } \cup FailedResponses
FabricResponses == { OkResponse(b) : b \in FabricBodies } \cup FailedResponses
ColorResponses  == { OkResponse(b) : b \in ColorBodies } \cup FailedResponses

\* No response yet.
NoResponse == [status_code |-> 0, text |-> "", json |-> Empty]

-----------------------------------------------------------------------------
(* The body of the per-image try block, section by section                 *)

\* What a section of code did: the elements it rendered and how it ended,
\* by falling through to the next section ("fall"), by continue
\* ("continue"), or by raising an exception with message msg ("raise").
Fall(out)       == [out |-> out, exit |-> "fall", msg |-> ""]
Continue(out)   == [out |-> out, exit |-> "continue", msg |-> ""]
Raise(out, msg) == [out |-> out, exit |-> "raise", msg |-> msg]

\* Section a, and section b after it when a falls through.
Then(a, b) ==
  IF a.exit # "fall" THEN a
  ELSE [out |-> a.out \o b.out, exit |-> b.exit, msg |-> b.msg]

\* except Exception as e: the error and the traceback under it.
ExceptHandler(r) ==
  IF r.exit = "raise"
    THEN r.out \o <<ExceptionError(r.msg), Traceback(r.msg)>>
    ELSE r.out

Html(t) == Text("html", t)

\* NotClothingBranch without its continue.
NotClothingBranch_FallsThrough(cloth_data) ==
  IF "confidence" \in DOMAIN cloth_data
    THEN Fall(<<NotClothingWarning,
                Percent1("cloth_confidence", cloth_data["confidence"])>>)
    ELSE Raise(<<NotClothingWarning>>, "'confidence'")

\* The Not-Clothing display.
NotClothingBranch(cloth_data) ==
  IF "confidence" \in DOMAIN cloth_data
    THEN Continue(<<NotClothingWarning,
                    Percent1("cloth_confidence", cloth_data["confidence"])>>)
    ELSE Raise(<<NotClothingWarning>>, "'confidence'")

\* ClothGate with the gate testing is_clothing alone, not the "Not Clothing"
\* sentinel of cloth_type.
ClothGate_NoSentinel(cloth_response) ==
  IF cloth_response.status_code # 200
    THEN Continue(<<StatusError("Error calling Cloth Type API",
                                cloth_response.status_code)>>)
    ELSE
      LET cloth_data == cloth_response.json
          debug == Fall(<<WriteData("Cloth API Response:", cloth_data)>>)
      IN  IF ~DictGet(cloth_data, "is_clothing", TRUE)
            THEN Then(debug, NotClothingBranch(cloth_data))
            ELSE debug

\* The status check of the clothing response and the clothing gate.
ClothGate(cloth_response) ==
  IF cloth_response.status_code # 200
    THEN Continue(<<StatusError("Error calling Cloth Type API",
                                cloth_response.status_code)>>)
    ELSE
      LET cloth_data == cloth_response.json
          debug == Fall(<<WriteData("Cloth API Response:", cloth_data)>>)
      IN  IF ~DictGet(cloth_data, "is_clothing", TRUE)
            THEN Then(debug, NotClothingBranch(cloth_data))
          ELSE IF "cloth_type" \notin DOMAIN cloth_data
            THEN Then(debug, Raise(<<>>, "'cloth_type'"))
          ELSE IF cloth_data["cloth_type"] = "Not Clothing"
            THEN Then(debug, NotClothingBranch(cloth_data))
          ELSE debug

\* The status checks of the fabric and the color responses, made after both
\* requests have returned.
StatusChecks(fabric_response, color_response) ==
  LET debug == Fall(<<WriteNum("Fabric API Status:", fabric_response.status_code),
                      WriteNum("Color API Status:", color_response.status_code)>>)
  IN  IF fabric_response.status_code # 200
        THEN Then(debug,
               Continue(<<StatusError("Fabric API Error", fabric_response.status_code),
                          WriteText("Fabric API Response:", fabric_response.text)>>))
      ELSE IF color_response.status_code # 200
        THEN Then(debug,
               Continue(<<StatusError("Color API Error", color_response.status_code),
                          WriteText("Color API Response:", color_response.text)>>))
      ELSE debug

\* The debug output of the two bodies and the clothing type with its
\* confidence.
ClothingTypeSection(cloth_data, fabric_data, color_data) ==
  LET debug == Fall(<<WriteData("Fabric API Response:", fabric_data),
                      WriteData("Color API Response:", color_data),
                      Html("<div class=\"fabric-section\">")>>)
  IN  IF "cloth_type" \notin DOMAIN cloth_data
        THEN Then(debug, Raise(<<>>, "'cloth_type'"))
      ELSE IF "confidence" \notin DOMAIN cloth_data
        THEN Then(debug, Raise(<<>>, "'confidence'"))
      ELSE Then(debug,
             Fall(<<Text("cloth_type", cloth_data["cloth_type"]),
                    Percent1("cloth_confidence", cloth_data["confidence"])>>))

\* fabric_type = None
NoFabric == [found |-> FALSE, fabric_type |-> <<>>, fabric_confidence |-> 0]

FabricUnder(fabric_data, key) ==
  [found |-> TRUE, fabric_type |-> fabric_data[key],
   fabric_confidence |-> DictGet(fabric_data, "confidence", 0)]

\* FabricExtraction with a last branch that also accepts the key "label".
FabricExtraction_AlsoLabel(fabric_data) ==
  IF "predicted_class" \in DOMAIN fabric_data
    THEN FabricUnder(fabric_data, "predicted_class")
  ELSE IF "fabric_type" \in DOMAIN fabric_data
    THEN FabricUnder(fabric_data, "fabric_type")
  ELSE IF "class" \in DOMAIN fabric_data
    THEN FabricUnder(fabric_data, "class")
  ELSE
    LET hits == DOMAIN fabric_data \cap {"prediction", "label"}
    IN  IF hits = {} THEN NoFabric
        ELSE FabricUnder(fabric_data, CHOOSE key \in hits : TRUE)

\* FabricExtraction trying the aliases in the opposite order.
FabricExtraction_ClassFirst(fabric_data) ==
  IF "class" \in DOMAIN fabric_data
    THEN FabricUnder(fabric_data, "class")
  ELSE IF "fabric_type" \in DOMAIN fabric_data
    THEN FabricUnder(fabric_data, "fabric_type")
  ELSE IF "predicted_class" \in DOMAIN fabric_data
    THEN FabricUnder(fabric_data, "predicted_class")
  ELSE
    LET hits == DOMAIN fabric_data \cap {"prediction"}
    IN  IF hits = {} THEN NoFabric
        ELSE FabricUnder(fabric_data, CHOOSE key \in hits : TRUE)

\* The extraction of the fabric type.  The loop of the last branch takes the
\* first key of the body that is in its list; the three keys tested before
\* it are absent there, so the only key it can find is "prediction".
FabricExtraction(fabric_data) ==
  IF "predicted_class" \in DOMAIN fabric_data
    THEN FabricUnder(fabric_data, "predicted_class")
  ELSE IF "fabric_type" \in DOMAIN fabric_data
    THEN FabricUnder(fabric_data, "fabric_type")
  ELSE IF "class" \in DOMAIN fabric_data
    THEN FabricUnder(fabric_data, "class")
  ELSE
    LET hits == DOMAIN fabric_data
                  \cap {"predicted_class", "fabric_type", "class", "prediction"}
    IN  IF hits = {} THEN NoFabric
        ELSE FabricUnder(fabric_data, CHOOSE key \in hits : TRUE)

\* if fabric_type: neither None nor the empty string
Truthy(extracted) == extracted.found /\ extracted.fabric_type # <<>>

CareTitle(fabric_guide) ==
  [El("care_title") EXCEPT !.text = fabric_guide.title,
                           !.detail = fabric_guide.emoji]

Instructions(fabric_guide) ==
  [k \in DOMAIN fabric_guide.instructions |->
     Text("instruction", fabric_guide.instructions[k])]

\* A care record in its box: the title, then one line per instruction.
CareRecord(class, fabric_guide) ==
  <<Html(class), CareTitle(fabric_guide)>>
    \o Instructions(fabric_guide) \o <<Html("</div>")>>

\* The fabric name and, when it is not zero, the fabric confidence.
FabricHeader(extracted) ==
  <<[El("fabric") EXCEPT !.name = Title(extracted.fabric_type)]>>
    \o (IF extracted.fabric_confidence # 0
          THEN <<[El("fabric_confidence") EXCEPT
                    !.num = Fixed1(extracted.fabric_confidence)]>>
          ELSE <<>>)

\* Special handling for leather.
LeatherBranch(fabric_type) ==
  CareRecord("<div class=\"leather-tip\">",
             DictGet(care_guide, Lower(fabric_type), care_guide[leather]))

\* FabricCareGuide looking the name up as reported, without .lower().
FabricCareGuide_CaseSensitive(fabric_type) ==
  CareRecord("<div class=\"fabric-tip\">",
             DictGet(care_guide, fabric_type, care_guide[cotton]))

\* FabricCareGuide with the leather record as the default.
FabricCareGuide_DefaultLeather(fabric_type) ==
  CareRecord("<div class=\"fabric-tip\">",
             DictGet(care_guide, Lower(fabric_type), care_guide[leather]))

\* FABRIC CARE GUIDE of the other fabrics.
FabricCareGuide(fabric_type) ==
  CareRecord("<div class=\"fabric-tip\">",
             DictGet(care_guide, Lower(fabric_type), care_guide[cotton]))

Advisory(washing_tip) == Text("advisory", washing_tip)

ColorLabel(class, color_type, color_confidence) ==
  <<Html(class),
    [El("color") EXCEPT !.name = Title(color_type), !.num = color_confidence],
    Html("</div>")>>

\* ColorCareGuide with the two washing tips exchanged.
ColorCareGuide_Swapped(color_data) ==
  LET color_type == DictGet(color_data, "color", bright)
      color_confidence == DictGet(color_data, "confidence", 0)
  IN  IF Lower(color_type) = bright
        THEN ColorLabel("<div class=\"bright-section\">", color_type, color_confidence)
               \o <<Advisory(DARK_WASHING)>>
        ELSE ColorLabel("<div class=\"dark-section\">", color_type, color_confidence)
               \o <<Advisory(BRIGHT_WASHING)>>

\* ColorCareGuide comparing the color with "bright" without .lower().
ColorCareGuide_CaseSensitive(color_data) ==
  LET color_type == DictGet(color_data, "color", bright)
      color_confidence == DictGet(color_data, "confidence", 0)
  IN  IF color_type = bright
        THEN ColorLabel("<div class=\"bright-section\">", color_type, color_confidence)
               \o <<Advisory(BRIGHT_WASHING)>>
        ELSE ColorLabel("<div class=\"dark-section\">", color_type, color_confidence)
               \o <<Advisory(DARK_WASHING)>>

\* COLOR CARE GUIDE.
ColorCareGuide(color_data) ==
  LET color_type == DictGet(color_data, "color", bright)
      color_confidence == DictGet(color_data, "confidence", 0)
  IN  IF Lower(color_type) = bright
        THEN ColorLabel("<div class=\"bright-section\">", color_type, color_confidence)
               \o <<Advisory(BRIGHT_WASHING)>>
        ELSE ColorLabel("<div class=\"dark-section\">", color_type, color_confidence)
               \o <<Advisory(DARK_WASHING)>>

\* CareSection comparing the fabric type with 'leather' without .lower().
CareSection_CaseSensitive(fabric_data, color_data) ==
  LET extracted == FabricExtraction(fabric_data)
  IN  IF Truthy(extracted)
        THEN IF extracted.fabric_type = leather
               THEN Fall(FabricHeader(extracted)
                           \o LeatherBranch(extracted.fabric_type)
                           \o <<Html("</div>")>>)
               ELSE Fall(FabricHeader(extracted)
                           \o FabricCareGuide(extracted.fabric_type)
                           \o ColorCareGuide(color_data)
                           \o <<Html("</div>")>>)
        ELSE Fall(<<FabricUndetermined,
                    WriteData("Fabric API returned:", fabric_data),
                    Html("</div>")>>)

\* The fabric, its care record and the color advisory, or the error that
\* the fabric could not be determined.
CareSection(fabric_data, color_data) ==
  LET extracted == FabricExtraction(fabric_data)
  IN  IF Truthy(extracted)
        THEN IF Lower(extracted.fabric_type) = leather
               THEN Fall(FabricHeader(extracted)
                           \o LeatherBranch(extracted.fabric_type)
                           \o <<Html("</div>")>>)
               ELSE Fall(FabricHeader(extracted)
                           \o FabricCareGuide(extracted.fabric_type)
                           \o ColorCareGuide(color_data)
                           \o <<Html("</div>")>>)
        ELSE Fall(<<FabricUndetermined,
                    WriteData("Fabric API returned:", fabric_data),
                    Html("</div>")>>)

\* The items of a dict, as progress bars.  The bodies modelled hold one
\* class each, so the order of iteration does not show.
RECURSIVE ProgressBars(_)
ProgressBars(d) ==
  IF DOMAIN d = {} THEN <<>>
  ELSE LET k == CHOOSE x \in DOMAIN d : TRUE
       IN  <<[El("progress") EXCEPT !.text = k, !.num = d[k]]>>
             \o ProgressBars([x \in DOMAIN d \ {k} |-> d[x]])

Metric(label, value) == [El("metric") EXCEPT !.text = label, !.num = Fixed1(value)]

\* The "View detailed predictions" expander.
DetailPanel(cloth_data, fabric_data, color_data) ==
  LET fabric_column ==
        <<Text("heading", "**Fabric Probabilities:**")>> \o
        (IF "all_predictions" \in DOMAIN fabric_data
           THEN ProgressBars(fabric_data["all_predictions"])
         ELSE IF "probabilities" \in DOMAIN fabric_data
           THEN ProgressBars(fabric_data["probabilities"])
         ELSE <<Text("info", "Detailed fabric predictions not available")>>)
      cloth_heading == <<Text("heading", "**Clothing Type Probabilities:**")>>
      color_column ==
        <<Text("heading", "**Color Analysis:**")>> \o
        (IF "brightness_L" \in DOMAIN color_data
           THEN <<Metric("Brightness", color_data["brightness_L"])>> ELSE <<>>) \o
        (IF "saturation" \in DOMAIN color_data
           THEN <<Metric("Saturation", color_data["saturation"])>> ELSE <<>>) \o
        (IF "colorfulness" \in DOMAIN color_data
           THEN <<Metric("Colorfulness", color_data["colorfulness"])>> ELSE <<>>)
  IN  IF "all_predictions" \notin DOMAIN cloth_data
        THEN Raise(fabric_column \o cloth_heading, "'all_predictions'")
        ELSE Fall(fabric_column \o cloth_heading
                    \o ProgressBars(cloth_data["all_predictions"])
                    \o color_column)

\* Everything after the color request: the status checks, then for two 200
\* responses the results, and the except handler around them.
RenderResults(cloth_data, fabric_response, color_response) ==
  ExceptHandler(
    Then(StatusChecks(fabric_response, color_response),
      Then(ClothingTypeSection(cloth_data, fabric_response.json, color_response.json),
        Then(CareSection(fabric_response.json, color_response.json),
             DetailPanel(cloth_data, fabric_response.json, color_response.json)))))

-----------------------------------------------------------------------------
(* The script run                                                          *)

VARIABLES
  uploaded_files,   \* the number of files the uploader returned
  current,          \* the position in the batch of the file being processed
  pc,               \* where the script is
  cloth_response,   \* the responses of the current image's requests
  fabric_response,
  color_response,
  posts,            \* the POSTs issued for the current image, in order
  row,              \* the elements rendered for the current image
  page,             \* the outcome of every image whose iteration has ended
  gets,             \* the health GETs issued, with how each ended
  health,           \* cloth_health, color_health, fabric_health
  sidebar           \* the elements of the System Status panel

vars == <<uploaded_files, current, pc, cloth_response, fabric_response,
          color_response, posts, row, page, gets, health, sidebar>>

Services == {"cloth", "color", "fabric"}

HasKind(r, kind) == \E k \in DOMAIN r : r[k].kind = kind

\* What a finished row amounts to.
Outcome(r) ==
  IF HasKind(r, "care_title") THEN "care"
  ELSE IF HasKind(r, "warning") THEN "not_clothing"
  ELSE "error"

Init ==
  /\ uploaded_files \in 0..MaxImages
  /\ current = 0
  /\ pc = "for"
  /\ cloth_response = NoResponse
  /\ fabric_response = NoResponse
  /\ color_response = NoResponse
  /\ posts = <<>>
  /\ row = <<>>
  /\ page = <<>>
  /\ gets = <<>>
  /\ health = [s \in Services |-> "unset"]
  /\ sidebar = <<>>

image_vars == <<cloth_response, fabric_response, color_response, posts, row, page>>
side_vars == <<gets, health, sidebar>>

\* The iteration of the current image ends with its row as r.
EndIteration(r) ==
  /\ row' = r
  /\ page' = Append(page, Outcome(r))
  /\ pc' = "for"

\* The next file of the batch: Image.open and st.image, outside the try
\* block.  PIL raises on a file it cannot identify, and the exception ends
\* the script run.  The names of the last iteration are bound anew before
\* they are read again, so they are cleared here.
OpenImage ==
  /\ pc = "for"
  /\ current < uploaded_files
  /\ current' = current + 1
  /\ cloth_response' = NoResponse
  /\ fabric_response' = NoResponse
  /\ color_response' = NoResponse
  /\ posts' = <<>>
  /\ \/ /\ row' = <<ImageEl>>
        /\ pc' = "save"
     \/ /\ row' = <<El("uncaught_exception")>>
        /\ pc' = "aborted"
  /\ UNCHANGED <<uploaded_files, page, side_vars>>

\* image.save(img_bytes, format='JPEG'), inside the try block: PIL raises
\* on a mode JPEG cannot hold.
SaveJpeg ==
  /\ pc = "save"
  /\ \/ /\ pc' = "post_cloth"
        /\ UNCHANGED <<row, page>>
     \/ EndIteration(ExceptHandler(Raise(row, "cannot write mode RGBA as JPEG")))
  /\ UNCHANGED <<uploaded_files, current, cloth_response, fabric_response,
                 color_response, posts, side_vars>>

\* PostCloth with a second attempt after a request that raised.
PostCloth_RetriesOnce ==
  /\ pc = "post_cloth"
  /\ \/ /\ posts' = Append(posts, "cloth")
        /\ cloth_response' \in ClothResponses
        /\ pc' = "cloth_gate"
        /\ UNCHANGED <<row, page>>
     \/ /\ posts' = posts \o <<"cloth", "cloth">>
        /\ cloth_response' \in ClothResponses
        /\ pc' = "cloth_gate"
        /\ UNCHANGED <<row, page>>
  /\ UNCHANGED <<uploaded_files, current, fabric_response, color_response,
                 gets, health, sidebar>>

\* STEP 1: the clothing request.  It returns a response or raises (timeout,
\* connection error).
PostCloth ==
  /\ pc = "post_cloth"
  /\ posts' = Append(posts, "cloth")
  /\ \/ /\ cloth_response' \in ClothResponses
        /\ pc' = "cloth_gate"
        /\ UNCHANGED <<row, page>>
     \/ /\ UNCHANGED cloth_response
        /\ EndIteration(ExceptHandler(Raise(row, "Read timed out.")))
  /\ UNCHANGED <<uploaded_files, current, fabric_response, color_response, side_vars>>

\* The status check of the clothing response and the clothing gate.
CheckCloth ==
  /\ pc = "cloth_gate"
  /\ LET r == Then(Fall(row), ClothGate(cloth_response))
     IN  IF r.exit = "fall"
           THEN /\ row' = r.out
                /\ pc' = "post_fabric"
                /\ UNCHANGED page
           ELSE EndIteration(ExceptHandler(r))
  /\ UNCHANGED <<uploaded_files, current, cloth_response, fabric_response,
                 color_response, posts, side_vars>>

\* PostFabric rendering the fabric and its care record as soon as the
\* fabric response is in, before the color request.
PostFabric_RendersCare ==
  /\ pc = "post_fabric"
  /\ posts' = Append(posts, "fabric")
  /\ \E r \in FabricResponses :
       /\ fabric_response' = r
       /\ row' = row \o (IF r.status_code = 200 /\ Truthy(FabricExtraction(r.json))
                           THEN FabricCareGuide(FabricExtraction(r.json).fabric_type)
                           ELSE <<>>)
  /\ pc' = "post_color"
  /\ UNCHANGED <<uploaded_files, current, cloth_response, color_response, page,
                 gets, health, sidebar>>

\* STEP 2: the fabric request.
PostFabric ==
  /\ pc = "post_fabric"
  /\ posts' = Append(posts, "fabric")
  /\ \/ /\ fabric_response' \in FabricResponses
        /\ pc' = "post_color"
        /\ UNCHANGED <<row, page>>
     \/ /\ UNCHANGED fabric_response
        /\ EndIteration(ExceptHandler(Raise(row, "Read timed out.")))
  /\ UNCHANGED <<uploaded_files, current, cloth_response, color_response, side_vars>>

\* STEP 2: the color request.
PostColor ==
  /\ pc = "post_color"
  /\ posts' = Append(posts, "color")
  /\ \/ /\ color_response' \in ColorResponses
        /\ pc' = "render"
        /\ UNCHANGED <<row, page>>
     \/ /\ UNCHANGED color_response
        /\ EndIteration(ExceptHandler(Raise(row, "Read timed out.")))
  /\ UNCHANGED <<uploaded_files, current, cloth_response, fabric_response, side_vars>>

\* The rest of the try block.
Render ==
  /\ pc = "render"
  /\ EndIteration(row \o RenderResults(cloth_response.json, fabric_response,
                                       color_response))
  /\ UNCHANGED <<uploaded_files, current, cloth_response, fabric_response,
                 color_response, posts, side_vars>>

\* The batch is through (or empty): on to the sidebar.  No image is being
\* processed any more.
LeaveLoop ==
  /\ pc = "for"
  /\ current = uploaded_files
  /\ pc' = "health_cloth"
  /\ cloth_response' = NoResponse
  /\ fabric_response' = NoResponse
  /\ color_response' = NoResponse
  /\ posts' = <<>>
  /\ row' = <<>>
  /\ UNCHANGED <<uploaded_files, current, page, side_vars>>

-----------------------------------------------------------------------------
(* The sidebar                                                             *)

ServiceLabel(s) ==
  CASE s = "cloth" -> "Cloth Type API"
    [] s = "color" -> "Color API"
    [] s = "fabric" -> "Fabric API"

\* st.success("... Online" if x_health else "... Offline")
StatusLine(s, up) ==
  [El("status") EXCEPT !.text = ServiceLabel(s),
                       !.detail = IF up THEN "Online" ELSE "Offline"]

CannotConnect == Text("sidebar_error", "Cannot connect to APIs")

\* x_health = requests.get(".../health", timeout=10).status_code == 200.
\* The GET returns a status or raises; the bare except around the three
\* GETs and the three status lines renders one error.
HealthGet(s, at, next) ==
  /\ pc = at
  /\ \/ \E code \in {200, 503} :
          /\ gets' = Append(gets, [service |-> s, raised |-> FALSE, status_code |-> code])
          /\ health' = [health EXCEPT ![s] = IF code = 200 THEN "True" ELSE "False"]
          /\ pc' = next
          /\ UNCHANGED sidebar
     \/ /\ gets' = Append(gets, [service |-> s, raised |-> TRUE, status_code |-> 0])
        /\ sidebar' = Append(sidebar, CannotConnect)
        /\ pc' = "done"
        /\ UNCHANGED health
  /\ UNCHANGED <<uploaded_files, current, image_vars>>

HealthCloth  == HealthGet("cloth", "health_cloth", "health_color")
HealthColor  == HealthGet("color", "health_color", "health_fabric")
HealthFabric == HealthGet("fabric", "health_fabric", "health_report")

\* The three status lines.
ReportHealth ==
  /\ pc = "health_report"
  /\ sidebar' = sidebar \o <<StatusLine("cloth", health["cloth"] = "True"),
                             StatusLine("color", health["color"] = "True"),
                             StatusLine("fabric", health["fabric"] = "True")>>
  /\ pc' = "done"
  /\ UNCHANGED <<uploaded_files, current, image_vars, gets, health>>

Next ==
  \/ OpenImage
  \/ SaveJpeg
  \/ PostCloth
  \/ CheckCloth
  \/ PostFabric
  \/ PostColor
  \/ Render
  \/ LeaveLoop
  \/ HealthCloth
  \/ HealthColor
  \/ HealthFabric
  \/ ReportHealth

Spec == Init /\ [][Next]_vars

-----------------------------------------------------------------------------
(* Reading a row                                                           *)

\* The iteration of the current image has ended and its row is complete.
RowFinished == pc = "for" /\ current >= 1

\* The three requests of the current image returned 200, and the clothing
\* body has the fields read before the fabric type is extracted: the
\* extraction of the fabric type was reached.
ReachedExtraction ==
  /\ RowFinished
  /\ posts = <<"cloth", "fabric", "color">>
  /\ cloth_response.status_code = 200
  /\ fabric_response.status_code = 200
  /\ color_response.status_code = 200
  /\ "confidence" \in DOMAIN cloth_response.json

\* The fabric type extracted from the current image's fabric body.
fabric_type == FabricExtraction(fabric_response.json).fabric_type

ExtractedFabric ==
  ReachedExtraction /\ Truthy(FabricExtraction(fabric_response.json))

OfKind(r, kind) == SelectSeq(r, LAMBDA e : e.kind = kind)

Texts(elements) == [k \in DOMAIN elements |-> elements[k].text]

\* The texts of the color advisories of a row, in order.
Advisories(r) == Texts(OfKind(r, "advisory"))

\* Exactly the care record fabric_guide is rendered in row r: its title
\* once, and its instructions in order.
ShowsCareRecord(r, fabric_guide) ==
  /\ Texts(OfKind(r, "care_title")) = <<fabric_guide.title>>
  /\ Texts(OfKind(r, "instruction")) = fabric_guide.instructions

CareShown(r) == HasKind(r, "care_title") \/ HasKind(r, "instruction")

ErrorShown(r) ==
  \/ HasKind(r, "status_error")
  \/ HasKind(r, "exception_error")
  \/ HasKind(r, "fabric_error")

-----------------------------------------------------------------------------
(* Claims                                                                  *)

LoopPcs == {"for", "save", "post_cloth", "cloth_gate", "post_fabric",
            "post_color", "render"}

\* C1: a failure while handling one image does not abort the batch: once
\* the script is past the upload loop, every uploaded image has had its
\* own outcome.
C1_BatchNotAborted == pc \notin LoopPcs => Len(page) = uploaded_files

\* The clothing service answered 200 and reports no clothing.
ReportsNotClothing ==
  /\ cloth_response.status_code = 200
  /\ \/ /\ "is_clothing" \in DOMAIN cloth_response.json
        /\ ~cloth_response.json["is_clothing"]
     \/ /\ "cloth_type" \in DOMAIN cloth_response.json
        /\ cloth_response.json["cloth_type"] = "Not Clothing"

\* C2: when the clothing service answers 200 with is_clothing false or
\* with cloth_type "Not Clothing", the finished row shows the Not-Clothing
\* display and no fabric type, care record, color class or color advisory.
C2_NotClothingDisplay ==
  (RowFinished /\ ReportsNotClothing) =>
    /\ HasKind(row, "warning")
    /\ ~HasKind(row, "fabric")
    /\ ~CareShown(row)
    /\ ~HasKind(row, "color")
    /\ ~HasKind(row, "advisory")

C2_Witness ==
  /\ RowFinished
  /\ cloth_response.status_code = 200
  /\ DictGet(cloth_response.json, "is_clothing", FALSE)
  /\ DictGet(cloth_response.json, "cloth_type", "") = "Not Clothing"
  /\ HasKind(row, "warning")

\* C3: for an extracted fabric type that is leather in any casing, the row
\* holds the leather care record and no color advisory, whatever the color
\* body.
C3_LeatherNoAdvisory ==
  (ExtractedFabric /\ Lower(fabric_type) = leather) =>
    /\ ShowsCareRecord(row, care_guide[leather])
    /\ Advisories(row) = <<>>

C3_Witness ==
  /\ ExtractedFabric
  /\ fabric_type = LEATHER_UPPER
  /\ DictGet(color_response.json, "color", <<>>) = dark
  /\ ShowsCareRecord(row, care_guide[leather])

\* What the rest of the try block renders for the current image when the
\* color service answers c instead.
RenderedWithColor(c) ==
  RenderResults(cloth_response.json, fabric_response, c)

EndsWith(r, tail) ==
  /\ Len(tail) <= Len(r)
  /\ SubSeq(r, Len(r) - Len(tail) + 1, Len(r)) = tail

\* C4: for a leather image (a clothing body with its confidence, a fabric
\* body naming leather), the row is the same whatever the color service
\* answered (any status, any body).
C4_LeatherIgnoresColor ==
  ( /\ RowFinished
    /\ posts = <<"cloth", "fabric", "color">>
    /\ color_response # NoResponse
    /\ "confidence" \in DOMAIN cloth_response.json
    /\ fabric_response.status_code = 200
    /\ Truthy(FabricExtraction(fabric_response.json))
    /\ Lower(fabric_type) = leather ) =>
    \A c \in ColorResponses : EndsWith(row, RenderedWithColor(c))

\* C5: a care record rendered for a fabric name whose lower case is a key
\* of care_guide has the title and the ordered instructions of that key's
\* record.
C5_SupportedFabricRecord ==
  (ExtractedFabric /\ CareShown(row) /\ Lower(fabric_type) \in DOMAIN care_guide) =>
    ShowsCareRecord(row, care_guide[Lower(fabric_type)])

C5_Witness ==
  /\ ExtractedFabric
  /\ fabric_type = Denim_Title
  /\ ShowsCareRecord(row, care_guide[denim])

\* C6: for a non-empty fabric name outside care_guide, the cotton record is
\* rendered with one color advisory, and the row has no error of the fabric
\* or of a service; an exception in it is the detail panel's, for a clothing
\* body without all_predictions.
C6_UnknownFabricCotton ==
  (ExtractedFabric /\ Lower(fabric_type) \notin DOMAIN care_guide) =>
    /\ ShowsCareRecord(row, care_guide[cotton])
    /\ Len(Advisories(row)) = 1
    /\ ~HasKind(row, "fabric_error")
    /\ ~HasKind(row, "status_error")
    /\ HasKind(row, "exception_error") =>
         "all_predictions" \notin DOMAIN cloth_response.json

C6_Witness ==
  /\ ExtractedFabric
  /\ fabric_type = wool
  /\ ShowsCareRecord(row, care_guide[cotton])
  /\ Len(Advisories(row)) = 1
  /\ ~ErrorShown(row)

\* C7: for a non-leather fabric, color "bright" shows exactly the
\* BRIGHT_WASHING block and color "dark" exactly the DARK_WASHING block,
\* and no second block.
C7_AdvisoryVerbatim ==
  (ExtractedFabric /\ Lower(fabric_type) # leather
     /\ "color" \in DOMAIN color_response.json) =>
    /\ color_response.json["color"] = bright => Advisories(row) = <<BRIGHT_WASHING>>
    /\ color_response.json["color"] = dark => Advisories(row) = <<DARK_WASHING>>

C7_Witness ==
  /\ ExtractedFabric
  /\ Lower(fabric_type) = denim
  /\ DictGet(color_response.json, "color", <<>>) = dark
  /\ Advisories(row) = <<DARK_WASHING>>

\* The row shows that the fabric could not be determined, and neither a
\* care record nor a color advisory.
ShowsFabricUndetermined ==
  /\ HasKind(row, "fabric_error")
  /\ ~HasKind(row, "fabric")
  /\ ~CareShown(row)
  /\ ~HasKind(row, "advisory")

\* C8 as stated: a fabric body with none of predicted_class, fabric_type
\* and class gives the could-not-determine error and no care record or
\* advisory.
C8_ThreeAliases ==
  (ReachedExtraction
     /\ DOMAIN fabric_response.json
          \cap {"predicted_class", "fabric_type", "class"} = {}) =>
    ShowsFabricUndetermined

\* C8, amended: a fabric body with none of predicted_class, fabric_type,
\* class and prediction gives the could-not-determine error and no care
\* record or advisory, whatever other keys it has.
C8_FourAliases ==
  (ReachedExtraction
     /\ DOMAIN fabric_response.json
          \cap {"predicted_class", "fabric_type", "class", "prediction"} = {}) =>
    ShowsFabricUndetermined

C8_Witness ==
  /\ ReachedExtraction
  /\ "label" \in DOMAIN fabric_response.json
  /\ DOMAIN fabric_response.json
       \cap {"predicted_class", "fabric_type", "class", "prediction"} = {}
  /\ ShowsFabricUndetermined

\* The responses of the current image that came back with a status other
\* than 200, each with the label its error message uses.
FailedServices ==
  { f \in { [label |-> "Error calling Cloth Type API", response |-> cloth_response],
            [label |-> "Fabric API Error", response |-> fabric_response],
            [label |-> "Color API Error", response |-> color_response] } :
      f.response # NoResponse /\ f.response.status_code # 200 }

\* C9: when a request of the image returned a status other than 200, the
\* finished row has an error naming a failing service with its status code,
\* and neither a care record nor a color advisory.
C9_StatusErrorShown ==
  (RowFinished /\ FailedServices # {}) =>
    /\ \E k \in DOMAIN row : \E f \in FailedServices :
         /\ row[k].kind = "status_error"
         /\ row[k].text = f.label
         /\ row[k].num = f.response.status_code
    /\ ~CareShown(row)
    /\ ~HasKind(row, "advisory")

\* How the health GET of service s ended, if it was issued.
Issued(s) == { k \in DOMAIN gets : gets[k].service = s }

Healthy(s) ==
  \E k \in Issued(s) : ~gets[k].raised /\ gets[k].status_code = 200

\* C10: at the end of the run every service has a status line of its own:
\* Online for a health GET that returned 200, Offline for one that raised
\* or returned another status.
C10_HealthIndependent ==
  pc = "done" =>
    \A s \in Services :
      \E k \in DOMAIN sidebar :
        sidebar[k] = StatusLine(s, Healthy(s))


\* C11: when the script run has ended, a health GET has been issued to each
\* of the three services.
C11_HealthAlwaysIssued ==
  pc \in {"done", "aborted"} => \A s \in Services : Issued(s) # {}

\* The response of the current image's request to service s.
ResponseOf(s) ==
  CASE s = "cloth" -> cloth_response
    [] s = "fabric" -> fabric_response
    [] s = "color" -> color_response

Posted(s) == { k \in DOMAIN posts : posts[k] = s }

\* C12: a care record or a color advisory is in the row only when the three
\* requests of the image have been issued and have returned.
C12_JoinBeforeRender ==
  (CareShown(row) \/ HasKind(row, "advisory")) =>
    \A s \in Services : Posted(s) # {} /\ ResponseOf(s) # NoResponse

C12_Witness ==
  /\ RowFinished
  /\ CareShown(row)
  /\ HasKind(row, "advisory")

\* The last request issued for the current image raised.
LastRequestRaised ==
  posts # <<>> /\ ResponseOf(posts[Len(posts)]) = NoResponse

\* C13: every service is posted to at most once for an image, and a request
\* that raised or returned another status than 200 ends the image with an
\* error in its row.
C13_NoRetry ==
  /\ \A s \in Services : Cardinality(Posted(s)) <= 1
  /\ (RowFinished /\ (LastRequestRaised \/ FailedServices # {})) => ErrorShown(row)

C13_Witness ==
  /\ RowFinished
  /\ posts = <<"cloth", "fabric">>
  /\ LastRequestRaised
  /\ ErrorShown(row)

\* The clothing service answered 200 with a body that reports clothing.
ReportsClothing ==
  /\ cloth_response.status_code = 200
  /\ DictGet(cloth_response.json, "is_clothing", TRUE)
  /\ "cloth_type" \in DOMAIN cloth_response.json
  /\ cloth_response.json["cloth_type"] # "Not Clothing"

\* C16: a fabric or color request is issued only after the clothing request
\* returned 200 with a body that reports clothing; an image whose clothing
\* request did not is finished with the clothing request alone.
C16_ClothingGate ==
  /\ (Posted("fabric") # {} \/ Posted("color") # {}) =>
       posts[1] = "cloth" /\ ReportsClothing
  /\ (RowFinished /\ posts # <<>> /\ ~ReportsClothing) => posts = <<"cloth">>

C16_Witness ==
  /\ RowFinished
  /\ ReportsNotClothing
  /\ posts = <<"cloth">>
  /\ HasKind(row, "warning")


\* The percentage a confidence reads as, in tenths of a percent: a value up
\* to 1 is on the 0-1 scale, a larger one on the 0-100 scale.
AsPercentage(confidence) ==
  Fixed1(IF confidence <= 1000 THEN confidence * 100 ELSE confidence)

\* C14: the fabric confidence displayed is the service's confidence as a
\* percentage, whichever of the two scales the service used.
C14_ConfidenceNormalized ==
  (ExtractedFabric /\ DictGet(fabric_response.json, "confidence", 0) # 0) =>
    \E k \in DOMAIN row :
      /\ row[k].kind = "fabric_confidence"
      /\ row[k].num = AsPercentage(fabric_response.json["confidence"])

\* The highest-priority alias present in a fabric body that has one.
TopAlias(fabric_data) ==
  IF "predicted_class" \in DOMAIN fabric_data THEN "predicted_class"
  ELSE IF "fabric_type" \in DOMAIN fabric_data THEN "fabric_type"
  ELSE "class"

Names(elements) == [k \in DOMAIN elements |-> elements[k].name]

\* C17: when the fabric body has several of predicted_class, fabric_type
\* and class, the fabric shown and its care record are those of the value of
\* the first of them that is present; an empty value there is not replaced by
\* the value of a later alias.
C17_AliasPriority ==
  (ReachedExtraction
     /\ DOMAIN fabric_response.json
          \cap {"predicted_class", "fabric_type", "class"} # {}) =>
    LET value == fabric_response.json[TopAlias(fabric_response.json)]
    IN  IF value = <<>>
          THEN ShowsFabricUndetermined
          ELSE /\ Names(OfKind(row, "fabric")) = <<Title(value)>>
               /\ ShowsCareRecord(row, DictGet(care_guide, Lower(value),
                                               care_guide[cotton]))

C17_Witness ==
  /\ ReachedExtraction
  /\ DOMAIN fabric_response.json
       \cap {"predicted_class", "fabric_type", "class"}
         = {"predicted_class", "fabric_type", "class"}
  /\ fabric_response.json["predicted_class"] = silk
  /\ fabric_response.json["class"] = leather
  /\ ShowsCareRecord(row, care_guide[silk])

\* C18: a finished row never holds both a care record or color advisory and
\* an error.
C18_ExclusiveOutcomes ==
  RowFinished =>
    ~((CareShown(row) \/ HasKind(row, "advisory")) /\ ErrorShown(row))

\* C19: a non-leather fabric with a 200 color response gets exactly one
\* advisory: the bright block for a color that is "bright" in any casing or
\* is absent, the dark block for any other color.
C19_AdvisoryForEveryColor ==
  (ExtractedFabric /\ Lower(fabric_type) # leather) =>
    LET color_data == color_response.json
    IN  /\ "color" \notin DOMAIN color_data => Advisories(row) = <<BRIGHT_WASHING>>
        /\ "color" \in DOMAIN color_data =>
             /\ color_data["color"] \in {bright, Bright_Title} =>
                  Advisories(row) = <<BRIGHT_WASHING>>
             /\ color_data["color"] \in {dark, DARK_UPPER, pastel} =>
                  Advisories(row) = <<DARK_WASHING>>
             /\ color_data["color"] \in {bright, Bright_Title, dark, DARK_UPPER, pastel}

C19_Witness ==
  /\ ExtractedFabric
  /\ Lower(fabric_type) = denim
  /\ DictGet(color_response.json, "color", <<>>) = pastel
  /\ Advisories(row) = <<DARK_WASHING>>

-----------------------------------------------------------------------------
(* local_app.py: the revision that calls the three services for every      *)
(* image and renders afterwards.  Its upload loop opens and saves the      *)
(* image as app.py does, and its sidebar is the same code against the      *)
(* local URLs, so OpenImage, LeaveLoop and the health actions stand for    *)
(* both files.                                                             *)

LEATHER_WASHING ==
  "\n**Leather Care:**\n- Professional cleaning recommended\n- Spot clean with damp cloth if needed\n- Avoid machine washing\n- Store in cool, dry place\n"

\* Fabric bodies of the shape local_app.py reads, and the same less one key.
LocalFabricBodies ==
  { Restrict(full, K) :
      full \in [fabric_type : {leather, denim, LEATHER_UPPER},
                confidence : {87300},
                washing_advice : {"Machine wash cold, inside out"},
                all_predictions : {[denim |-> 87300]}],
      K \in { {"fabric_type", "confidence", "washing_advice", "all_predictions"},
              {"confidence", "washing_advice", "all_predictions"},
              {"fabric_type", "washing_advice", "all_predictions"},
              {"fabric_type", "confidence", "all_predictions"},
              {"fabric_type", "confidence", "washing_advice"} } }

LocalFabricResponses ==
  { OkResponse(b) : b \in LocalFabricBodies } \cup FailedResponses

\* except Exception as e: the error alone.
LocalExceptHandler(r) ==
  IF r.exit = "raise" THEN r.out \o <<ExceptionError(r.msg)>> ELSE r.out

\* d[key] for a section that renders out(d[key]) when the key is there.
Lookup(d, key, out) ==
  IF key \in DOMAIN d THEN Fall(out) ELSE Raise(<<>>, key)

\* The fabric and its confidence, shown before the clothing verdict is
\* looked at.
LocalFabricSection(fabric_data) ==
  Then(Fall(<<Html("<div class=\"fabric-section\">")>>),
    Then(Lookup(fabric_data, "fabric_type",
                <<[El("fabric") EXCEPT
                     !.name = Title(DictGet(fabric_data, "fabric_type", <<>>))]>>),
         Lookup(fabric_data, "confidence",
                <<[El("fabric_confidence") EXCEPT
                     !.num = Fixed1(DictGet(fabric_data, "confidence", 0))]>>)))

LocalClothingType(cloth_data) ==
  <<Text("cloth_type", cloth_data["cloth_type"]),
    Percent1("cloth_confidence", cloth_data["confidence"])>>

\* The color, its washing tip and the fabric's washing advice, for a fabric
\* other than 'leather'.
LocalColorBranch(cloth_data, fabric_data, color_data) ==
  IF "color" \notin DOMAIN color_data THEN Raise(<<>>, "color")
  ELSE IF "confidence" \notin DOMAIN color_data THEN Raise(<<>>, "confidence")
  ELSE
    LET color_type == color_data["color"]
        shown == LocalClothingType(cloth_data)
                   \o ColorLabel(IF color_type = bright
                                   THEN "<div class=\"bright-section\">"
                                   ELSE "<div class=\"dark-section\">",
                                 color_type, color_data["confidence"])
                   \o <<Advisory(IF color_type = bright
                                   THEN BRIGHT_WASHING ELSE DARK_WASHING)>>
    IN  IF "washing_advice" \in DOMAIN fabric_data
          THEN Fall(shown \o <<[El("fabric_care") EXCEPT
                                  !.detail = fabric_data["washing_advice"]]>>)
          ELSE Raise(shown, "washing_advice")

\* Check if it's clothing: the clothing type with the leather tip or the
\* color branch, or the Not-Clothing warning.
LocalVerdict(cloth_data, fabric_data, color_data) ==
  IF ~DictGet(cloth_data, "is_clothing", TRUE)
    THEN Fall(<<NotClothingWarning>>)
  ELSE IF "cloth_type" \notin DOMAIN cloth_data
    THEN Raise(<<>>, "cloth_type")
  ELSE IF cloth_data["cloth_type"] = "Not Clothing"
    THEN Fall(<<NotClothingWarning>>)
  ELSE IF "confidence" \notin DOMAIN cloth_data
    THEN Raise(<<>>, "confidence")
  ELSE IF fabric_data["fabric_type"] = leather
    THEN Fall(LocalClothingType(cloth_data)
                \o <<Text("leather_tip", LEATHER_WASHING)>>)
  ELSE LocalColorBranch(cloth_data, fabric_data, color_data)

\* The "View detailed predictions" expander of local_app.py: every key is
\* read without a test.
LocalDetailPanel(cloth_data, fabric_data, color_data) ==
  LET fabric_heading == <<Text("heading", "**Fabric Probabilities:**")>>
      cloth_heading == <<Text("heading", "**Clothing Type Probabilities:**")>>
      color_heading == <<Text("heading", "**Color Analysis:**")>>
  IN  IF "all_predictions" \notin DOMAIN fabric_data
        THEN Raise(fabric_heading, "all_predictions")
      ELSE IF "all_predictions" \notin DOMAIN cloth_data
        THEN Raise(fabric_heading \o ProgressBars(fabric_data["all_predictions"])
                     \o cloth_heading, "all_predictions")
      ELSE
        Then(Fall(fabric_heading \o ProgressBars(fabric_data["all_predictions"])
                    \o cloth_heading \o ProgressBars(cloth_data["all_predictions"])
                    \o color_heading),
          Then(Lookup(color_data, "brightness_L",
                      <<Metric("Brightness", DictGet(color_data, "brightness_L", 0))>>),
            Then(Lookup(color_data, "saturation",
                        <<Metric("Saturation", DictGet(color_data, "saturation", 0))>>),
                 Lookup(color_data, "colorfulness",
                        <<Metric("Colorfulness", DictGet(color_data, "colorfulness", 0))>>))))

\* Everything after the three requests.
LocalRenderResults(cloth_resp, fabric_resp, color_resp) ==
  IF /\ fabric_resp.status_code = 200
     /\ color_resp.status_code = 200
     /\ cloth_resp.status_code = 200
    THEN LocalExceptHandler(
           Then(LocalFabricSection(fabric_resp.json),
             Then(LocalVerdict(cloth_resp.json, fabric_resp.json,
                               color_resp.json),
               Then(Fall(<<Html("</div>")>>),
                    LocalDetailPanel(cloth_resp.json, fabric_resp.json,
                                     color_resp.json)))))
    ELSE <<Text("api_error", "Error calling APIs")>>

\* What a finished row of local_app.py amounts to.
LocalOutcome(r) ==
  IF HasKind(r, "advisory") \/ HasKind(r, "leather_tip") THEN "care"
  ELSE IF HasKind(r, "warning") THEN "not_clothing"
  ELSE "error"

LocalEndIteration(r) ==
  /\ row' = r
  /\ page' = Append(page, LocalOutcome(r))
  /\ pc' = "for"

\* image.save(img_bytes, format='JPEG'), inside the try block.
LocalSaveJpeg ==
  /\ pc = "save"
  /\ \/ /\ pc' = "local_post_fabric"
        /\ UNCHANGED <<row, page>>
     \/ LocalEndIteration(LocalExceptHandler(Raise(row, "cannot write mode RGBA as JPEG")))
  /\ UNCHANGED <<uploaded_files, current, cloth_response, fabric_response,
                 color_response, posts, side_vars>>

\* Call all three APIs: fabric, color, clothing, in that order, each whatever
\* the one before it answered.  A request returns a response or raises.
LocalPostFabric ==
  /\ pc = "local_post_fabric"
  /\ posts' = Append(posts, "fabric")
  /\ \/ /\ fabric_response' \in LocalFabricResponses
        /\ pc' = "local_post_color"
        /\ UNCHANGED <<row, page>>
     \/ /\ UNCHANGED fabric_response
        /\ LocalEndIteration(LocalExceptHandler(Raise(row, "Connection refused")))
  /\ UNCHANGED <<uploaded_files, current, cloth_response, color_response, side_vars>>

LocalPostColor ==
  /\ pc = "local_post_color"
  /\ posts' = Append(posts, "color")
  /\ \/ /\ color_response' \in ColorResponses
        /\ pc' = "local_post_cloth"
        /\ UNCHANGED <<row, page>>
     \/ /\ UNCHANGED color_response
        /\ LocalEndIteration(LocalExceptHandler(Raise(row, "Connection refused")))
  /\ UNCHANGED <<uploaded_files, current, cloth_response, fabric_response, side_vars>>

LocalPostCloth ==
  /\ pc = "local_post_cloth"
  /\ posts' = Append(posts, "cloth")
  /\ \/ /\ cloth_response' \in ClothResponses
        /\ pc' = "local_render"
        /\ UNCHANGED <<row, page>>
     \/ /\ UNCHANGED cloth_response
        /\ LocalEndIteration(LocalExceptHandler(Raise(row, "Connection refused")))
  /\ UNCHANGED <<uploaded_files, current, fabric_response, color_response, side_vars>>

\* The rest of the try block.
LocalRender ==
  /\ pc = "local_render"
  /\ LocalEndIteration(row \o LocalRenderResults(cloth_response, fabric_response,
                                                 color_response))
  /\ UNCHANGED <<uploaded_files, current, cloth_response, fabric_response,
                 color_response, posts, side_vars>>

LocalNext ==
  \/ OpenImage
  \/ LocalSaveJpeg
  \/ LocalPostFabric
  \/ LocalPostColor
  \/ LocalPostCloth
  \/ LocalRender
  \/ LeaveLoop
  \/ HealthCloth
  \/ HealthColor
  \/ HealthFabric
  \/ ReportHealth

SpecLocal == Init /\ [][LocalNext]_vars

\* C15: in local_app.py, when the three services answer 200 and the
\* clothing body reports no clothing, the finished row shows the
\* Not-Clothing warning and no fabric type, fabric confidence or color.
C15_LocalNotClothingDisplay ==
  ( /\ RowFinished
    /\ ReportsNotClothing
    /\ fabric_response.status_code = 200
    /\ color_response.status_code = 200 ) =>
    /\ HasKind(row, "warning")
    /\ ~HasKind(row, "fabric")
    /\ ~HasKind(row, "fabric_confidence")
    /\ ~HasKind(row, "color")

\* Each service is posted to at most once for an image (C13, read on
\* local_app.py).
LocalNoRetry == \A s \in Services : Cardinality(Posted(s)) <= 1

=============================================================================
